---- MODULE Spec2Model ----
(***************************************************************************)
(* Model of the upload/transcode server (src/unnamed/part_000):            *)
(*   - the tus upload directory (source files, .json metadata, .processed  *)
(*     claim markers),                                                     *)
(*   - the periodic scanner checkForCompletedUploads,                      *)
(*   - the 'upload-finish' push handler with its quality ladder,           *)
(*   - the local-video catalog and POST /api/local-videos/process,         *)
(*   - the master manifest computation.                                    *)
(* An action is the effect of an awaited call followed by the code that    *)
(* runs up to the next awaited call whose outcome other handlers can       *)
(* change or observe.  Awaited calls on files only one handler touches     *)
(* (the .processed flags and the .json records for the scanner, the output *)
(* directory of an identity for its attempt) commute with every other      *)
(* handler's steps and are folded into the neighbouring action.            *)
(* The file imports WebSocketServer only; `WebSocket.OPEN` is a reference   *)
(* to a global of the runtime.  A runtime that defines it gives 1, another  *)
(* throws a ReferenceError when the expression is evaluated: wsGlobal.      *)
(***************************************************************************)
EXTENDS Integers, Sequences, FiniteSets, TLC

\* ---------------------------------------------------------------- bounds
\* identities handed out by uuidv4() are 1..MaxAttempts
MaxAttempts == 3
\* how many 5-second steps and how many 30-minute steps the clock may take
MaxShortTicks == 2
MaxLongTicks == 1
\* source widths and heights 1..MaxDim are enumerated next to NamedDims
MaxDim == 6
\* concurrent POST /api/local-videos/process requests
MaxRequests == 2
MaxSilence == 3
\* answered pings of one connection that the model counts
MaxPongs == 2
\* 'upload-progress' events, and the bytes of the upload they report on
MaxEvents == 2
MaxBytes == 3
\* runs of checkForCompletedUploads that the model lets begin side by side
MaxRuns == 2

\* ------------------------------------------------------ program constants
\* 30 * 60 * 1000 ms, the staleness threshold of a .processed flag
TTL == 30 * 60 * 1000
\* setTimeout(checkForCompletedUploads, 5000)
ScanInterval == 5000
\* declared size (info.size) of every modelled upload, in chunks
DeclaredSize == 1

\* files of tusUploadDir (upload ids) and of uploadsDir (local videos)
Sources == {"u1", "u2"}
\* the uploads that arrive while Spec runs
Arriving == {"u1"}
\* names a POST /api/local-videos/process may carry: a file of uploadsDir, a
\* name with no file behind it, and the missing name
LocalFiles == {"a.mp4", "b.mp4"}
\* the peers that may open a WebSocket on /ws
Observers == {"o1", "o2", "o3"}
\* the peers that connect while the uploads are processed
Watching == {"o1"}
Present == {"a.mp4"}
NoName == ""
\* widths and heights ffprobe may report
NamedDims == {270, 360, 480, 522, 642, 720, 737, 1080, 1280, 1920}
Dims == (1..MaxDim) \cup NamedDims
Ids == 1..MaxAttempts
Requests == 1..MaxRequests

NoFile == "-"
NoId == 0
\* new Date(content) of an unparsable content: Invalid Date, getTime() = NaN
NaN == -1
\* a .json that does not exist
NoInfo == -1

\* ------------------------------------------------------- quality ladder
\* qualities: name, height, bitrate (k), in ladder order
qualities ==
  << [name |-> "360p", height |-> 360, bitrate |-> 800],
     [name |-> "480p", height |-> 480, bitrate |-> 1500],
     [name |-> "720p", height |-> 720, bitrate |-> 2500] >>

Min(a, b) == IF a <= b THEN a ELSE b

\* line 42: outputDir = path.join(hlsDir, videoId), one directory per videoId
SharedDir(videoId) == Min(videoId, 1)
OutputDir(videoId) == videoId

RECURSIVE Pow2(_)
Pow2(n) == IF n <= 0 THEN 1 ELSE 2 * Pow2(n - 1)

\* floor(log2(a / b)) for positive integers a, b
RECURSIVE ExpUp(_, _, _)
ExpUp(a, b, e) == IF 2 * Pow2(e) * b <= a THEN ExpUp(a, b, e + 1) ELSE e
RECURSIVE ExpDown(_, _, _)
ExpDown(a, b, j) == IF a * Pow2(j) < b THEN ExpDown(a, b, j + 1) ELSE j
FloorLog2(a, b) == IF a >= b THEN ExpUp(a, b, 0) ELSE 0 - ExpDown(a, b, 0)

\* (a * 2^n) mod h
RECURSIVE MulPow2Mod(_, _, _)
MulPow2Mod(a, n, h) ==
  IF n <= 0 THEN a % h
  ELSE IF n >= 8 THEN MulPow2Mod((256 * a) % h, n - 8, h)
  ELSE MulPow2Mod((2 * a) % h, n - 1, h)

\* aspectRatio = width / height is an IEEE-754 double: the quotient rounded to
\* 53 significant bits, ties to even.  TRUE iff the stored double is strictly
\* below the exact quotient; rem is the remainder of the 53-bit long division.
DivRem(w, h) == MulPow2Mod(w, 52 - FloorLog2(w, h), h)
DivQuotOdd(w, h) == (2 * MulPow2Mod(w, 51 - FloorLog2(w, h), h)) \div h = 1
DivRoundsDown(w, h) ==
  LET rem == DivRem(w, h)
  IN  /\ rem > 0
      /\ \/ 2 * rem < h
         \/ 2 * rem = h /\ ~DivQuotOdd(w, h)

\* targetHeight * aspectRatio as a double, for an exact product k + 1/2: TRUE
\* iff the double product is strictly below k + 1/2 (the error inherited from
\* the division exceeds half the gap to the next double below k + 1/2)
ProductBelowHalf(th, w, h) ==
  LET g == FloorLog2(th * w, h) - FloorLog2(w, h)
      scale == IF 2 * th * w = h THEN 4 ELSE 2
  IN  /\ DivRoundsDown(w, h)
      /\ scale * th * DivRem(w, h) > h * Pow2(g)

\* Math.round(targetHeight * aspectRatio): the nearest integer, a half going up
FloorWidth(th, w, h) == (th * w) \div h
RoundWidth(th, w, h) ==
  LET x2 == 2 * th * w
      up == (x2 + h) \div (2 * h)
  IN  IF (x2 + h) % (2 * h) # 0 THEN up
      ELSE IF ProductBelowHalf(th, w, h) THEN up - 1 ELSE up

\* one #EXT-X-STREAM-INF entry of the master playlist
UnclampedHeight(q, height) == q.height
TargetHeight(q, height) == Min(q.height, height)
StreamInf(q, width, height) ==
  [ name |-> q.name,
    bandwidth |-> q.bitrate * 1000,
    height |-> TargetHeight(q, height),
    width |-> RoundWidth(TargetHeight(q, height), width, height) ]

\* the master playlist: one entry per quality, in ladder order
MasterPlaylist(width, height) ==
  [ i \in 1..Len(qualities) |-> StreamInf(qualities[i], width, height) ]


\* ------------------------------------------------------------- variables
VARIABLES
  now,            \* Date.now(), ms since the server started
  \* tusUploadDir
  srcExists,      \* [Sources -> BOOLEAN]: the upload's data file exists
  srcSize,        \* [Sources -> 0..DeclaredSize]: stats.size
  infoSize,       \* [Sources -> Int]: size of <file>.json, NoInfo if absent
  flagExists,     \* [Sources -> BOOLEAN]: <file>.processed exists
  flagContent,    \* [Sources -> Int]: the date written into it (NaN: invalid)
  \* hlsDir/<videoId>
  outDir,         \* set of identities whose output directory exists
  playlist,       \* [Ids -> {"none", "master", "media"}]: playlist.m3u8
  masterEntries,  \* [Ids -> Seq]: the content of a written master playlist
  variantFiles,   \* [Ids -> SUBSET names]: <quality>.m3u8 files written
  \* uuidv4 and the ffmpeg children
  nextId,         \* the next identity uuidv4() returns
  ffmpeg,         \* [Ids -> {"idle", "running", "nofile"}]: the child of an id
  attempts,       \* [Ids -> record]: source, path and state of each attempt
  bcast,          \* [Ids -> Seq]: the message types broadcast with a videoId
  inbox,          \* [Observers -> Seq]: the <<type, videoId>> sent to each peer
  \* the WebSocket layer
  wsGlobal,       \* the runtime defines the global WebSocket
  conn,           \* [Observers -> {"none", "open", "terminated"}]: the socket
  clients,        \* the keys of the Map clients, one per registered socket
  isAlive,        \* [Observers -> BOOLEAN]: client.isAlive
  pinged,         \* the peers that the latest tick of pingInterval pinged
  sincePong,      \* [Observers -> 0..MaxSilence]: the ticks of pingInterval
                  \* since the peer's last pong, or since it connected
  pongs,          \* [Observers -> 0..MaxPongs]: the pings the peer has
                  \* answered since it connected
  \* checkForCompletedUploads (one run at a time)
  scanPc, processedVideoIds, processedFiles, uploadFiles,
  scanFile, scanVideoId, scanStarted,
  timers,         \* the armed setTimeout(checkForCompletedUploads, 5000)
  running,        \* the runs of checkForCompletedUploads begun and not ended
  quiet,          \* what the log tells about the runs so far (see RunLog)
  \* 'upload-finish' handler, one per upload
  pushPc, pushId, pushQ, pushDim, processingStartedNotified,
  started,        \* [Sources -> Seq]: the variants whose ffmpeg was started
  \* uploadsDir, processedLocalVideos and the POST process requests
  localExists, processedLocalVideos, reqPc, reqFile, reqId, reqRes,
  \* the probed source of the manifest computation
  probeW, probeH, manifestPc, manifestOut,
  \* GET /api/videos/:videoId: the last request and its answer
  getId, getRes,
  \* tusServer.on('upload-progress')
  progressSeen,   \* the 'upload-progress' events handled so far
  progressPct,    \* progress of the latest event, in hundredths of a percent
  progressRes     \* how its handler ended: "done" or "TypeError"

fsVars == <<srcExists, srcSize, infoSize, flagExists, flagContent>>
hlsVars == <<outDir, playlist, masterEntries, variantFiles>>
procVars == <<nextId, ffmpeg, attempts, bcast, inbox>>
wsVars == <<wsGlobal, conn, clients, isAlive, pinged, sincePong, pongs>>
timerVars == <<timers, running>>
scanVars == <<scanPc, processedVideoIds, processedFiles, uploadFiles,
              scanFile, scanVideoId, scanStarted, timerVars, quiet>>
scanSteps == <<scanPc, processedVideoIds, processedFiles, uploadFiles,
               scanFile, scanVideoId, scanStarted, timerVars>>
pushVars == <<pushPc, pushId, pushQ, pushDim, processingStartedNotified,
              started>>
localVars == <<localExists, processedLocalVideos, reqPc, reqFile, reqId,
               reqRes>>
manifestVars == <<probeW, probeH, manifestPc, manifestOut>>
apiVars == <<getId, getRes>>
progressVars == <<progressSeen, progressPct, progressRes>>
vars == <<now, fsVars, hlsVars, procVars, wsVars, scanVars, pushVars,
          localVars, manifestVars, apiVars, progressVars>>

\* The run log of the scanner, as its console output tells it:
\*   sinceEnd   a run has ended and only the scanner wrote to tusUploadDir since
\*   prevClean  the last ended run had no failed attempt and no error, and
\*              only the scanner wrote to tusUploadDir since that run began
\*   curClean   the same for the run in progress, so far
\*   sawStale   the sources whose flag the run in progress removed as stale
\*   orphans    the flags that had no original when the run in progress began
RunLog(sinceEnd, prevClean, curClean, sawStale) ==
  [sinceEnd |-> sinceEnd, prevClean |-> prevClean, curClean |-> curClean,
   sawStale |-> sawStale, orphans |-> {}]
\* the upload layer or the push handler wrote to tusUploadDir
Disturbed ==
  quiet' = [RunLog(FALSE, FALSE, FALSE, quiet.sawStale)
              EXCEPT !.orphans = quiet.orphans]

\* no attempt yet; marker is the date an attempt wrote into its flag
NoAttempt == [src |-> NoFile, via |-> "none", st |-> "none", marker |-> NaN]

\* the state right after the module was loaded and server.listen returned:
\* empty upload and output directories, the scanner's first timer pending,
\* no request in flight
InitServer ==
  /\ now = 0
  /\ srcExists = [s \in Sources |-> FALSE]
  /\ srcSize = [s \in Sources |-> 0]
  /\ infoSize = [s \in Sources |-> NoInfo]
  /\ flagExists = [s \in Sources |-> FALSE]
  /\ flagContent = [s \in Sources |-> NaN]
  /\ outDir = {}
  /\ playlist = [i \in Ids |-> "none"]
  /\ masterEntries = [i \in Ids |-> << >>]
  /\ variantFiles = [i \in Ids |-> {}]
  /\ nextId = 1
  /\ ffmpeg = [i \in Ids |-> "idle"]
  /\ attempts = [i \in Ids |-> NoAttempt]
  /\ bcast = [i \in Ids |-> << >>]
  /\ inbox = [c \in Observers |-> << >>]
  /\ wsGlobal \in BOOLEAN
  /\ conn = [c \in Observers |-> "none"]
  /\ clients = {}
  /\ isAlive = [c \in Observers |-> FALSE]
  /\ pinged = {}
  /\ sincePong = [c \in Observers |-> 0]
  /\ pongs = [c \in Observers |-> 0]
  /\ scanPc = "timer"
  /\ processedVideoIds = {}
  /\ processedFiles = {}
  /\ uploadFiles = {}
  /\ scanFile = NoFile
  /\ scanVideoId = NoId
  /\ scanStarted = 0
  /\ timers = 1
  /\ running = 0
  /\ quiet = RunLog(FALSE, FALSE, TRUE, {})
  /\ pushPc = [s \in Sources |-> "none"]
  /\ pushId = [s \in Sources |-> NoId]
  /\ pushQ = [s \in Sources |-> 0]
  /\ pushDim = [s \in Sources |-> <<0, 0>>]
  /\ processingStartedNotified = [s \in Sources |-> FALSE]
  /\ started = [s \in Sources |-> << >>]
  /\ localExists = [f \in LocalFiles |-> f \in Present]
  /\ processedLocalVideos = [f \in {} |-> NoId]
  /\ reqPc = [r \in Requests |-> "none"]
  /\ reqFile = [r \in Requests |-> NoFile]
  /\ reqId = [r \in Requests |-> NoId]
  /\ reqRes = [r \in Requests |-> 0]
  /\ getId = NoId
  /\ getRes = [code |-> 0, status |-> "none"]
  /\ progressSeen = 0
  /\ progressPct = 0
  /\ progressRes = "none"

\* no stream has been probed
NoManifest ==
  /\ probeW = 0
  /\ probeH = 0
  /\ manifestPc = "none"
  /\ manifestOut = << >>

\* ------------------------------------------------------------- helpers
\* ws.readyState === WebSocket.OPEN
Open(c) == conn[c] = "open"
\* wss.clients: the sockets the WebSocketServer tracks, until their 'close'
Tracked == {c \in Observers : conn[c] # "none"}
\* targets.forEach(client => ... === WebSocket.OPEN ...): the callback runs for
\* the first element and the reference to WebSocket throws without the global
Throws(targets) == targets # {} /\ ~wsGlobal
\* targets.forEach(... send(JSON.stringify({type, videoId ...}))), to the
\* open sockets among the targets
Broadcast(type, id, targets) ==
  /\ bcast' = [bcast EXCEPT ![id] = Append(@, type)]
  /\ inbox' = [c \in Observers |->
       IF c \in targets /\ Open(c) THEN Append(inbox[c], <<type, id>>)
                                   ELSE inbox[c]]
\* nothing is sent
Silent == UNCHANGED <<bcast, inbox>>

\* lines 507-509 and 532-535: fs.access(originalPath) fails
NeverOrphaned(f) == FALSE
Orphaned(f) == ~srcExists[f]

\* now - processedDate > 30 * 60 * 1000; any comparison with NaN is false
NeverStale(date, t) == FALSE
EverStale(date, t) == date # NaN
IsStale(date, t) == date # NaN /\ t - date > TTL

\* ffmpeg(inputPath)...run(): the child opens its input when it starts
Spawn(present) == IF present THEN "running" ELSE "nofile"

\* the flag of a succeeded scanner attempt: the success path of lines
\* 617-645 leaves it in place (it does not remove it)
FlagReleased(f) == flagExists' = [flagExists EXCEPT ![f] = FALSE]
FlagKept(f) == UNCHANGED flagExists
\* the flag of a failed scanner attempt: line 650, fs.unlink(processedFlagPath)
FlagUnlinked(f) == flagExists' = [flagExists EXCEPT ![f] = FALSE]

\* what ffprobe reports as streams[0] of each upload: width, height
Probe(s) == IF s = "u1" THEN <<1920, 1080>> ELSE <<480, 270>>

\* ---------------------------------------------------------------- clock
\* time passes, by one scan interval or by one staleness period
Tick ==
  \/ /\ (now % TTL) \div ScanInterval < MaxShortTicks
     /\ now' = now + ScanInterval
     /\ UNCHANGED <<fsVars, hlsVars, procVars, wsVars, scanVars, pushVars,
                    localVars, manifestVars, apiVars, progressVars>>
  \/ /\ now \div TTL < MaxLongTicks
     /\ now' = now + TTL
     /\ UNCHANGED <<fsVars, hlsVars, procVars, wsVars, scanVars, pushVars,
                    localVars, manifestVars, apiVars, progressVars>>

\* ------------------------------------------------------ the upload layer
\* tus creates the upload: an empty data file and its .json with the size
UploadCreate(s) ==
  /\ ~srcExists[s] /\ infoSize[s] = NoInfo
  /\ srcExists' = [srcExists EXCEPT ![s] = TRUE]
  /\ srcSize' = [srcSize EXCEPT ![s] = 0]
  /\ infoSize' = [infoSize EXCEPT ![s] = DeclaredSize]
  /\ Disturbed
  /\ UNCHANGED <<now, flagExists, flagContent, hlsVars, procVars, wsVars,
                 scanSteps, pushVars, localVars, manifestVars, apiVars, progressVars>>

\* tus appends one received chunk to the data file.  With the last chunk the
\* upload layer may emit 'upload-finish' (it may also stay silent): lines
\* 291-319, the handler takes a videoId, makes the output directory and
\* calls ffmpeg.ffprobe(file.path)
UploadChunk(s) ==
  /\ srcExists[s] /\ infoSize[s] # NoInfo /\ srcSize[s] < infoSize[s]
  /\ srcSize' = [srcSize EXCEPT ![s] = @ + 1]
  /\ Disturbed
  /\ \/ /\ UNCHANGED <<outDir, nextId, ffmpeg, attempts, bcast, pushVars>>
     \/ /\ srcSize[s] + 1 = infoSize[s]
        /\ pushPc[s] = "none"
        /\ nextId <= MaxAttempts
        /\ pushPc' = [pushPc EXCEPT ![s] = "ffprobe"]
        /\ pushId' = [pushId EXCEPT ![s] = nextId]
        /\ nextId' = nextId + 1
        /\ attempts' = [attempts EXCEPT ![nextId] =
             [src |-> s, via |-> "push", st |-> "assigned", marker |-> NaN]]
        /\ outDir' = outDir \cup {nextId}
        /\ UNCHANGED <<ffmpeg, bcast, pushQ, pushDim,
                       processingStartedNotified, started>>
  /\ UNCHANGED <<now, srcExists, infoSize, flagExists, flagContent, playlist,
                 masterEntries, variantFiles, inbox, wsVars, scanSteps,
                 localVars, manifestVars, apiVars, progressVars>>

\* lines 254-256: a data file lies in tusUploadDir without its .json (the
\* FileStore writes the data file first; a file may also be put there by hand)
StrayFile(s) ==
  /\ ~srcExists[s] /\ infoSize[s] = NoInfo
  /\ srcExists' = [srcExists EXCEPT ![s] = TRUE]
  /\ srcSize' = [srcSize EXCEPT ![s] = DeclaredSize]
  /\ Disturbed
  /\ UNCHANGED <<now, infoSize, flagExists, flagContent, hlsVars, procVars,
                 wsVars, scanSteps, pushVars, localVars, manifestVars,
                 apiVars, progressVars>>

\* ------------------------------------------- checkForCompletedUploads
othersOfScan == <<now, wsVars, pushVars, localVars, manifestVars, apiVars, progressVars>>

\* for (const processedFlag of processedFiles): the next flag, fs.access of
\* its original pending; after the last one, fs.readdir of the second phase
NextFlag(rest) ==
  \/ /\ rest = {}
     /\ processedFiles' = {}
     /\ scanFile' = NoFile
     /\ scanPc' = "readdirFiles"
  \/ \E f \in rest :
       /\ processedFiles' = rest \ {f}
       /\ scanFile' = f
       /\ scanPc' = "accessOriginal"

\* line 691 stands after the try/catch of lines 490-688: the timer is armed
\* whether or not the run met an error
ArmInsideTry(t, clean) == IF clean THEN t + 1 ELSE t
ArmNext(t, clean) == t + 1

\* lines 686-691: setTimeout(checkForCompletedUploads, 5000), the run is over
Reschedule(clean) ==
  /\ scanPc' = "timer"
  /\ scanFile' = NoFile
  /\ scanVideoId' = NoId
  /\ uploadFiles' = {}
  /\ scanStarted' = 0
  /\ timers' = ArmNext(timers, clean)
  /\ running' = running - 1
  /\ quiet' = RunLog(TRUE, clean, TRUE, {})

\* for (const file of uploadFiles): the next candidate, fs.stat pending;
\* after the last one the run ends
NextFile(rest, clean) ==
  \/ /\ rest = {}
     /\ Reschedule(clean)
  \/ \E f \in rest :
       /\ uploadFiles' = rest \ {f}
       /\ scanFile' = f
       /\ scanVideoId' = NoId
       /\ scanPc' = "stat"
       /\ quiet' = [quiet EXCEPT !.curClean = clean]
       /\ UNCHANGED <<scanStarted, timerVars>>

\* lines 489-507 and 695: an armed timer fires and the .processed files are
\* listed; the callback arms no timer before its run has ended
RearmedAtStart(t) == t
FiredTimer(t) == t - 1
ScanStart ==
  /\ timers > 0
  /\ running < MaxRuns
  /\ timers' = FiredTimer(timers)
  /\ running' = running + 1
  /\ processedVideoIds' = {}
  /\ scanStarted' = now
  /\ quiet' = [quiet EXCEPT !.curClean = TRUE, !.sawStale = {},
       !.orphans = {s \in Sources : flagExists[s] /\ ~srcExists[s]}]
  /\ NextFlag({s \in Sources : flagExists[s]})
  /\ UNCHANGED <<uploadFiles, scanVideoId>>
  /\ UNCHANGED <<fsVars, hlsVars, procVars, othersOfScan>>

\* lines 507-537: one flag.  Without its original the flag is removed as
\* orphaned; with a date older than 30 minutes it is removed as stale;
\* otherwise the original joins processedVideoIds.  new Date(content) never
\* throws, so the catch of line 527 is dead and an unparsable date is kept.
ScanFlag ==
  /\ scanPc = "accessOriginal"
  /\ IF Orphaned(scanFile) \/ IsStale(flagContent[scanFile], now)
       THEN /\ flagExists' = [flagExists EXCEPT ![scanFile] = FALSE]
            /\ quiet' = [quiet EXCEPT !.sawStale =
                 IF srcExists[scanFile] THEN @ \cup {scanFile} ELSE @]
            /\ UNCHANGED processedVideoIds
       ELSE /\ processedVideoIds' = processedVideoIds \cup {scanFile}
            /\ UNCHANGED <<flagExists, quiet>>
  /\ NextFlag(processedFiles)
  /\ UNCHANGED <<uploadFiles, scanVideoId, scanStarted, timerVars>>
  /\ UNCHANGED <<srcExists, srcSize, infoSize, flagContent>>
  /\ UNCHANGED <<hlsVars, procVars, othersOfScan>>

\* lines 540-555: the directory is listed again; candidates are the data
\* files not in processedVideoIds
ScanListFiles ==
  /\ scanPc = "readdirFiles"
  /\ NextFile({s \in Sources : srcExists[s]} \ processedVideoIds,
              quiet.curClean)
  /\ UNCHANGED <<processedVideoIds, processedFiles>>
  /\ UNCHANGED <<fsVars, hlsVars, procVars, othersOfScan>>

\* lines 564-581: the candidate has a .json, its size equals info.size and
\* it has no .processed flag
AnySize(size, info) == TRUE
SizeMatches(size, info) == size = info
FlagBlocks(exists) == exists
Eligible(f) ==
  /\ infoSize[f] # NoInfo
  /\ SizeMatches(srcSize[f], infoSize[f])
  /\ ~FlagBlocks(flagExists[f])

\* line 597: fs.writeFile(processedFlagPath, new Date().toISOString()), awaited
\* before the broadcast of line 604 and processVideo of line 615
SkipProcessedFlag(f) == UNCHANGED <<flagExists, flagContent>>
WriteProcessedFlag(f) ==
  /\ flagExists' = [flagExists EXCEPT ![f] = TRUE]
  /\ flagContent' = [flagContent EXCEPT ![f] = now]

\* lines 555-612 and 41-43: one candidate.  fs.stat sits outside the per-file
\* try, so a candidate that vanished since the listing throws to the catch of
\* line 686 and ends the run.  An eligible candidate gets a videoId, its flag
\* is written with the current date, 'processing-started' is broadcast and
\* processVideo issues fs.mkdir(outputDir).  A broadcast that throws goes to
\* the catch of line 646, which removes the flag; its own broadcast throws
\* to the catch of line 675 and the loop goes on with the next candidate.
\* Such an attempt is over within the step; past MaxAttempts identities it
\* still happens and is no longer recorded in attempts
ScanFile ==
  /\ scanPc = "stat"
  /\ IF ~srcExists[scanFile]
       THEN /\ Reschedule(FALSE)
            /\ UNCHANGED <<processedVideoIds, fsVars, procVars>>
     ELSE IF Eligible(scanFile)
       THEN IF Throws(clients)
                 THEN /\ IF nextId <= MaxAttempts
                           THEN /\ nextId' = nextId + 1
                                /\ attempts' = [attempts EXCEPT ![nextId] =
                                     [src |-> scanFile, via |-> "scan",
                                      st |-> "failed", marker |-> now]]
                           ELSE UNCHANGED <<nextId, attempts>>
                      /\ Silent
                      /\ NextFile(uploadFiles, FALSE)
                      /\ UNCHANGED <<processedVideoIds, fsVars, ffmpeg>>
                 ELSE /\ nextId <= MaxAttempts
                      /\ nextId' = nextId + 1
                      /\ scanVideoId' = nextId
                      /\ WriteProcessedFlag(scanFile)
                      /\ attempts' = [attempts EXCEPT ![nextId] =
                           [src |-> scanFile, via |-> "scan",
                            st |-> "claimed", marker |-> now]]
                      /\ Broadcast("processing-started", nextId, clients)
                      /\ scanPc' = "mkdir"
                      /\ UNCHANGED <<processedVideoIds, uploadFiles, scanFile,
                                     scanStarted, timerVars, quiet,
                                     srcExists, srcSize,
                                     infoSize, ffmpeg>>
     ELSE /\ processedVideoIds' =
               IF infoSize[scanFile] # NoInfo
                  /\ SizeMatches(srcSize[scanFile], infoSize[scanFile])
                 THEN processedVideoIds \cup {scanFile}
                 ELSE processedVideoIds
          /\ NextFile(uploadFiles, quiet.curClean)
          /\ UNCHANGED <<fsVars, procVars>>
  /\ UNCHANGED processedFiles
  /\ UNCHANGED <<hlsVars, othersOfScan>>

\* lines 43-84: the output directory exists; ffmpeg(inputPath)...run()
ScanSpawn ==
  /\ scanPc = "mkdir"
  /\ outDir' = outDir \cup {OutputDir(scanVideoId)}
  /\ ffmpeg' = [ffmpeg EXCEPT ![scanVideoId] = Spawn(srcExists[scanFile])]
  /\ attempts' = [attempts EXCEPT ![scanVideoId].st = "running"]
  /\ scanPc' = "ffmpeg"
  /\ UNCHANGED <<processedVideoIds, processedFiles, uploadFiles, scanFile,
                 scanVideoId, scanStarted, timerVars, quiet>>
  /\ UNCHANGED <<fsVars, playlist, masterEntries, variantFiles, nextId,
                 bcast, inbox, othersOfScan>>

\* lines 75-78 and 615-662: ffmpeg ended and wrote playlist.m3u8;
\* playlistExists holds, 'videoProcessed' is broadcast, the flag stays.  A
\* broadcast that throws is handled as a failure by the catch of line 646
ScanEncodeEnd ==
  /\ scanPc = "ffmpeg"
  /\ ffmpeg[scanVideoId] = "running"
  /\ ffmpeg' = [ffmpeg EXCEPT ![scanVideoId] = "idle"]
  /\ playlist' = [playlist EXCEPT ![OutputDir(scanVideoId)] = "media"]
  /\ IF Throws(clients)
       THEN /\ FlagUnlinked(scanFile)
            /\ Silent
            /\ attempts' = [attempts EXCEPT ![scanVideoId].st = "failed"]
            /\ NextFile(uploadFiles, FALSE)
            /\ UNCHANGED processedVideoIds
       ELSE /\ Broadcast("videoProcessed", scanVideoId, clients)
            /\ attempts' = [attempts EXCEPT ![scanVideoId].st = "succeeded"]
            /\ processedVideoIds' = processedVideoIds \cup {scanFile}
            /\ FlagKept(scanFile)
            /\ NextFile(uploadFiles, quiet.curClean)
  /\ UNCHANGED processedFiles
  /\ UNCHANGED <<srcExists, srcSize, infoSize, flagContent, outDir,
                 masterEntries, variantFiles, nextId, othersOfScan>>

\* lines 79-92 and 646-662: ffmpeg failed (always so without its input);
\* the flag is removed so the upload can be retried, 'videoError' is broadcast
ScanEncodeError ==
  /\ scanPc = "ffmpeg"
  /\ ffmpeg[scanVideoId] \in {"running", "nofile"}
  /\ ffmpeg' = [ffmpeg EXCEPT ![scanVideoId] = "idle"]
  /\ FlagUnlinked(scanFile)
  /\ IF Throws(clients) THEN Silent
                        ELSE Broadcast("videoError", scanVideoId, clients)
  /\ attempts' = [attempts EXCEPT ![scanVideoId].st = "failed"]
  /\ NextFile(uploadFiles, FALSE)
  /\ UNCHANGED <<processedVideoIds, processedFiles>>
  /\ UNCHANGED <<srcExists, srcSize, infoSize, flagContent, hlsVars, nextId,
                 othersOfScan>>

Scanner ==
  \/ ScanStart \/ ScanFlag \/ ScanListFiles \/ ScanFile \/ ScanSpawn
  \/ ScanEncodeEnd \/ ScanEncodeError

\* ------------------------------------------- tusServer.on('upload-finish')
othersOfPush == <<now, wsVars, scanVars, localVars, manifestVars, apiVars, progressVars>>

\* lines 411-425: the catch of the handler broadcasts 'videoError' to
\* wss.clients; when that throws, the handler's promise is rejected
PushCatch(s) ==
  /\ attempts' = [attempts EXCEPT ![pushId[s]].st = "failed"]
  /\ IF Throws(Tracked)
       THEN /\ Silent
            /\ pushPc' = [pushPc EXCEPT ![s] = "rejected"]
       ELSE /\ Broadcast("videoError", pushId[s], Tracked)
            /\ pushPc' = [pushPc EXCEPT ![s] = "done"]

\* lines 314-336 and 411-425: ffprobe answered.  On an error the catch
\* broadcasts 'videoError'; otherwise the master playlist is built and
\* fs.writeFile(masterPlaylistPath) is issued
PushProbe(s) ==
  /\ pushPc[s] = "ffprobe"
  /\ \/ /\ srcExists[s]
        /\ pushDim' = [pushDim EXCEPT ![s] = Probe(s)]
        /\ pushPc' = [pushPc EXCEPT ![s] = "writeMaster"]
        /\ UNCHANGED <<attempts, bcast, inbox>>
     \/ /\ PushCatch(s)
        /\ UNCHANGED pushDim
  /\ UNCHANGED <<pushId, pushQ, processingStartedNotified, started>>
  /\ UNCHANGED <<fsVars, hlsVars, nextId, ffmpeg, othersOfPush>>

\* the early notification of lines 379-394, sent with the first variant only
EarlyThrows(s) == ~processingStartedNotified[s] /\ Throws(Tracked)
NotifyEarly(s) ==
  /\ IF ~processingStartedNotified[s]
       THEN Broadcast("videoProcessed", pushId[s], Tracked)
       ELSE Silent
  /\ processingStartedNotified' =
       [processingStartedNotified EXCEPT ![s] = TRUE]

\* line 341: for (const quality of qualities), the position after q
SkipVariant(q) == q + 2
NextVariant(q) == q + 1

\* lines 334-336: fs.writeFile(masterPlaylistPath, masterPlaylist)
MasterSkipped(s) == UNCHANGED <<playlist, masterEntries>>
MasterWritten(s) ==
  /\ playlist' = [playlist EXCEPT ![pushId[s]] = "master"]
  /\ masterEntries' = [masterEntries EXCEPT ![pushId[s]] =
       MasterPlaylist(pushDim[s][1], pushDim[s][2])]

\* lines 336-397: playlist.m3u8 is on disk; the first variant's ffmpeg is
\* started and the early notification sent
PushWriteMaster(s) ==
  /\ pushPc[s] = "writeMaster"
  /\ MasterWritten(s)
  /\ pushQ' = [pushQ EXCEPT ![s] = 1]
  /\ started' = [started EXCEPT ![s] = Append(@, qualities[1].name)]
  /\ ffmpeg' = [ffmpeg EXCEPT ![pushId[s]] = Spawn(srcExists[s])]
  /\ IF EarlyThrows(s)
       THEN /\ PushCatch(s)
            /\ UNCHANGED processingStartedNotified
       ELSE /\ NotifyEarly(s)
            /\ attempts' = [attempts EXCEPT ![pushId[s]].st = "running"]
            /\ pushPc' = [pushPc EXCEPT ![s] = "ffmpeg"]
  /\ UNCHANGED <<pushId, pushDim>>
  /\ UNCHANGED <<fsVars, outDir, variantFiles, nextId, othersOfPush>>

\* lines 368-371, 397-405 and 342-394: a variant ended and wrote its
\* <name>.m3u8; the next one is started, or after the last one
\* fs.unlink(file.path) is issued
PushVariantEnd(s) ==
  /\ pushPc[s] = "ffmpeg"
  /\ ffmpeg[pushId[s]] = "running"
  /\ variantFiles' = [variantFiles EXCEPT ![pushId[s]] =
       @ \cup {qualities[pushQ[s]].name}]
  /\ IF NextVariant(pushQ[s]) <= Len(qualities)
       THEN /\ pushQ' = [pushQ EXCEPT ![s] = NextVariant(@)]
            /\ started' = [started EXCEPT ![s] =
                 Append(@, qualities[NextVariant(pushQ[s])].name)]
            /\ ffmpeg' = [ffmpeg EXCEPT ![pushId[s]] = Spawn(srcExists[s])]
            /\ IF EarlyThrows(s)
                 THEN /\ PushCatch(s)
                      /\ UNCHANGED processingStartedNotified
                 ELSE /\ NotifyEarly(s)
                      /\ UNCHANGED <<pushPc, attempts>>
       ELSE /\ ffmpeg' = [ffmpeg EXCEPT ![pushId[s]] = "idle"]
            /\ attempts' = [attempts EXCEPT ![pushId[s]].st = "succeeded"]
            /\ pushPc' = [pushPc EXCEPT ![s] = "unlinkSource"]
            /\ Silent
            /\ UNCHANGED <<pushQ, processingStartedNotified, started>>
  /\ UNCHANGED <<pushId, pushDim>>
  /\ UNCHANGED <<fsVars, outDir, playlist, masterEntries, nextId,
                 othersOfPush>>

\* lines 411-425: the catch of the handler touches no file of the output
\* directory
Wiped(id) ==
  /\ playlist' = [playlist EXCEPT ![id] = "none"]
  /\ variantFiles' = [variantFiles EXCEPT ![id] = {}]
  /\ UNCHANGED <<outDir, masterEntries>>
Retained(id) == UNCHANGED hlsVars

\* lines 372-375 and 411-425: a variant failed; the catch broadcasts
\* 'videoError' and the handler returns
PushVariantError(s) ==
  /\ pushPc[s] = "ffmpeg"
  /\ ffmpeg[pushId[s]] \in {"running", "nofile"}
  /\ ffmpeg' = [ffmpeg EXCEPT ![pushId[s]] = "idle"]
  /\ PushCatch(s)
  /\ Retained(pushId[s])
  /\ UNCHANGED <<pushId, pushQ, pushDim, processingStartedNotified, started>>
  /\ UNCHANGED <<fsVars, nextId, othersOfPush>>

\* lines 405-409: the original upload is removed (an error is only logged)
PushUnlinkSource(s) ==
  /\ pushPc[s] = "unlinkSource"
  /\ srcExists' = [srcExists EXCEPT ![s] = FALSE]
  /\ pushPc' = [pushPc EXCEPT ![s] = "done"]
  /\ Disturbed
  /\ UNCHANGED <<pushId, pushQ, pushDim, processingStartedNotified, started>>
  /\ UNCHANGED <<srcSize, infoSize, flagExists, flagContent, hlsVars,
                 procVars, now, wsVars, scanSteps, localVars, manifestVars,
                 apiVars, progressVars>>

\* lines 350-377: the ffmpeg child of a handler whose promise was rejected
\* runs on and ends; nothing awaits it
PushOrphanEnd(s) ==
  /\ pushPc[s] = "rejected"
  /\ ffmpeg[pushId[s]] = "running"
  /\ ffmpeg' = [ffmpeg EXCEPT ![pushId[s]] = "idle"]
  /\ variantFiles' = [variantFiles EXCEPT ![pushId[s]] =
       @ \cup {qualities[pushQ[s]].name}]
  /\ UNCHANGED <<pushVars, fsVars, outDir, playlist, masterEntries, nextId,
                 attempts, bcast, inbox, othersOfPush>>

PushHandler(s) ==
  \/ PushProbe(s) \/ PushWriteMaster(s) \/ PushVariantEnd(s)
  \/ PushVariantError(s) \/ PushUnlinkSource(s)

\* --------------------------------------- POST /api/local-videos/process
othersOfPost ==
  <<now, fsVars, wsVars, scanVars, pushVars, manifestVars, apiVars, progressVars>>

\* lines 815-825: a request arrives.  Without a filename it is answered 400;
\* otherwise fs.access(filePath) is issued
PostProcess(r, name) ==
  /\ reqPc[r] \in {"none", "done"}
  /\ reqFile' = [reqFile EXCEPT ![r] = name]
  /\ reqId' = [reqId EXCEPT ![r] = NoId]
  /\ IF name = NoName
       THEN /\ reqRes' = [reqRes EXCEPT ![r] = 400]
            /\ reqPc' = [reqPc EXCEPT ![r] = "done"]
       ELSE /\ reqRes' = [reqRes EXCEPT ![r] = 0]
            /\ reqPc' = [reqPc EXCEPT ![r] = "access"]
  /\ UNCHANGED <<localExists, processedLocalVideos>>
  /\ UNCHANGED <<hlsVars, procVars, othersOfPost>>

\* lines 825-837, 737-745 and 41-43: fs.access answered.  A missing file is
\* answered 404, a filename of processedLocalVideos with its stored record;
\* otherwise processLocalVideo takes a videoId and processVideo issues
\* fs.mkdir(outputDir)
PostAccess(r) ==
  /\ reqPc[r] = "access"
  /\ IF ~localExists[reqFile[r]]
       THEN /\ reqRes' = [reqRes EXCEPT ![r] = 404]
            /\ reqPc' = [reqPc EXCEPT ![r] = "done"]
            /\ UNCHANGED <<reqId, nextId, attempts>>
     ELSE IF reqFile[r] \in DOMAIN processedLocalVideos
       THEN /\ reqRes' = [reqRes EXCEPT ![r] = 200]
            /\ reqId' = [reqId EXCEPT ![r] =
                 processedLocalVideos[reqFile[r]].id]
            /\ reqPc' = [reqPc EXCEPT ![r] = "done"]
            /\ UNCHANGED <<nextId, attempts>>
     ELSE /\ nextId <= MaxAttempts
          /\ reqId' = [reqId EXCEPT ![r] = nextId]
          /\ nextId' = nextId + 1
          /\ attempts' = [attempts EXCEPT ![nextId] =
               [src |-> reqFile[r], via |-> "local", st |-> "claimed",
                marker |-> NaN]]
          /\ reqPc' = [reqPc EXCEPT ![r] = "mkdir"]
          /\ UNCHANGED reqRes
  /\ UNCHANGED <<localExists, processedLocalVideos, reqFile>>
  /\ UNCHANGED <<hlsVars, ffmpeg, bcast, inbox, othersOfPost>>

\* lines 43-84: the output directory exists; ffmpeg(inputPath)...run()
PostSpawn(r) ==
  /\ reqPc[r] = "mkdir"
  /\ outDir' = outDir \cup {OutputDir(reqId[r])}
  /\ ffmpeg' = [ffmpeg EXCEPT ![reqId[r]] = Spawn(localExists[reqFile[r]])]
  /\ attempts' = [attempts EXCEPT ![reqId[r]].st = "running"]
  /\ reqPc' = [reqPc EXCEPT ![r] = "ffmpeg"]
  /\ UNCHANGED <<localExists, processedLocalVideos, reqFile, reqId, reqRes>>
  /\ UNCHANGED <<playlist, masterEntries, variantFiles, nextId, bcast,
                 inbox, othersOfPost>>

\* lines 75-78, 748-753 and 840-855: ffmpeg ended; the record is stored in
\* processedLocalVideos, 'localVideoProcessed' is broadcast, the answer is
\* 200; a broadcast that throws goes to the catch of line 856, answer 500
PostEncodeEnd(r) ==
  /\ reqPc[r] = "ffmpeg"
  /\ ffmpeg[reqId[r]] = "running"
  /\ ffmpeg' = [ffmpeg EXCEPT ![reqId[r]] = "idle"]
  /\ playlist' = [playlist EXCEPT ![OutputDir(reqId[r])] = "media"]
  /\ attempts' = [attempts EXCEPT ![reqId[r]].st = "succeeded"]
  /\ processedLocalVideos' =
       [f \in DOMAIN processedLocalVideos \cup {reqFile[r]} |->
          IF f = reqFile[r] THEN [id |-> reqId[r], processed |-> TRUE]
                            ELSE processedLocalVideos[f]]
  /\ IF Throws(clients)
       THEN /\ Silent
            /\ reqRes' = [reqRes EXCEPT ![r] = 500]
       ELSE /\ Broadcast("localVideoProcessed", reqId[r], clients)
            /\ reqRes' = [reqRes EXCEPT ![r] = 200]
  /\ reqPc' = [reqPc EXCEPT ![r] = "done"]
  /\ UNCHANGED <<localExists, reqFile, reqId>>
  /\ UNCHANGED <<outDir, masterEntries, variantFiles, nextId, othersOfPost>>

\* lines 79-92, 754-757 and 856-859: ffmpeg failed; the answer is 500 and
\* processedLocalVideos is left as it was
PostEncodeError(r) ==
  /\ reqPc[r] = "ffmpeg"
  /\ ffmpeg[reqId[r]] \in {"running", "nofile"}
  /\ ffmpeg' = [ffmpeg EXCEPT ![reqId[r]] = "idle"]
  /\ attempts' = [attempts EXCEPT ![reqId[r]].st = "failed"]
  /\ reqRes' = [reqRes EXCEPT ![r] = 500]
  /\ reqPc' = [reqPc EXCEPT ![r] = "done"]
  /\ UNCHANGED <<localExists, processedLocalVideos, reqFile, reqId>>
  /\ UNCHANGED <<hlsVars, nextId, bcast, inbox, othersOfPost>>

PostHandler(r) ==
  \/ PostAccess(r) \/ PostSpawn(r) \/ PostEncodeEnd(r) \/ PostEncodeError(r)

\* lines 794-805: what GET /api/local-videos lists for a file of uploadsDir
CatalogEntry(f) ==
  IF f \in DOMAIN processedLocalVideos
    THEN [filename |-> f, processed |-> TRUE,
          id |-> processedLocalVideos[f].id]
    ELSE [filename |-> f, processed |-> FALSE, id |-> NoId]
CatalogState(f) ==
  IF CatalogEntry(f).processed THEN "processed" ELSE "unprocessed"

\* ------------------------------------------------ the master manifest
\* lines 321-336: from the probed width and height to the master playlist
BuildMaster ==
  /\ manifestPc = "probed"
  /\ manifestOut' = MasterPlaylist(probeW, probeH)
  /\ manifestPc' = "written"
  /\ UNCHANGED <<probeW, probeH>>
  /\ UNCHANGED <<now, fsVars, hlsVars, procVars, wsVars, scanVars, pushVars,
                 localVars, apiVars, progressVars>>

\* -------------------------------------------- GET /api/videos/:videoId
\* lines 706-723: fs.access of <hlsDir>/<videoId>/playlist.m3u8 decides
\* between the two status records; both are sent with res.json, status 200
StatusOf(v) ==
  IF playlist[v] # "none" THEN [code |-> 200, status |-> "processed"]
                          ELSE [code |-> 200, status |-> "processing"]
\* lines 703-729: one status request, for an assigned or an unknown videoId
GetVideoStatus(v) ==
  /\ getId' = v
  /\ getRes' = StatusOf(v)
  /\ UNCHANGED progressVars
  /\ UNCHANGED <<now, fsVars, hlsVars, procVars, wsVars, scanVars, pushVars,
                 localVars, manifestVars>>

\* ------------------------------------------------ the WebSocket layer
othersOfWs == <<now, fsVars, hlsVars, procVars, scanVars, pushVars, localVars,
                manifestVars, apiVars, progressVars>>

\* lines 168-212: an upgrade on /ws; the socket is registered under a fresh
\* clientId with isAlive: true
ObsConnect(c) ==
  /\ conn[c] = "none"
  /\ conn' = [conn EXCEPT ![c] = "open"]
  /\ clients' = clients \cup {c}
  /\ isAlive' = [isAlive EXCEPT ![c] = TRUE]
  /\ sincePong' = [sincePong EXCEPT ![c] = 0]
  /\ pongs' = [pongs EXCEPT ![c] = 0]
  /\ UNCHANGED <<wsGlobal, pinged, othersOfWs>>

\* lines 184-187: client = clients.get(clientId); if (client) client.isAlive
\* = true
PongIgnored(c) == UNCHANGED isAlive
MarkAlive(c) ==
  isAlive' = IF c \in clients THEN [isAlive EXCEPT ![c] = TRUE] ELSE isAlive

\* lines 183-188: ws.on('pong'); the listener stays on the socket until it
\* has closed, so a pong may still be delivered after terminate()
ObsPong(c) ==
  /\ conn[c] # "none"
  /\ MarkAlive(c)
  /\ sincePong' = [sincePong EXCEPT ![c] = 0]
  /\ pongs' = [pongs EXCEPT ![c] =
       IF sincePong[c] >= 1 THEN Min(@ + 1, MaxPongs) ELSE @]
  /\ UNCHANGED <<wsGlobal, conn, clients, pinged, othersOfWs>>

\* line 208: clients.delete(clientId)
KeepEntry(c) == UNCHANGED clients
Unregister(c) == clients' = clients \ {c}

\* lines 206-209: ws.on('close'), after the peer closed or after terminate()
ObsClose(c) ==
  /\ conn[c] # "none"
  /\ conn' = [conn EXCEPT ![c] = "none"]
  /\ Unregister(c)
  /\ sincePong' = [sincePong EXCEPT ![c] = 0]
  /\ UNCHANGED <<wsGlobal, isAlive, pinged, pongs, othersOfWs>>

\* lines 217-229: one tick of pingInterval over the Map clients
NeverUnresponsive(c) == FALSE
Unresponsive(c) == isAlive[c] = FALSE
Heartbeat ==
  /\ clients # {}
  /\ conn' = [c \in Observers |->
       IF c \in clients /\ Unresponsive(c) THEN "terminated" ELSE conn[c]]
  /\ clients' = {c \in clients : ~Unresponsive(c)}
  /\ isAlive' = [c \in Observers |->
       IF c \in clients THEN FALSE ELSE isAlive[c]]
  /\ pinged' = {c \in clients : ~Unresponsive(c)}
  /\ sincePong' = [c \in Observers |->
       IF c \in clients THEN Min(sincePong[c] + 1, MaxSilence)
                         ELSE sincePong[c]]
  /\ UNCHANGED <<wsGlobal, pongs, othersOfWs>>

\* ------------------------------------------- tusServer.on('upload-progress')
\* line 430: ((bytesReceived / bytesTotal) * 100).toFixed(2), as hundredths
Percent(received, total) == (2 * 10000 * received + total) \div (2 * total)

\* line 435: client is an element of wss.clients, a WebSocket; it has no
\* property ws, so client.ws.readyState throws a TypeError for the first
\* connection the server tracks, before WebSocket.OPEN is evaluated
NoWsProperty(targets) == targets # {}

\* lines 428-443: one 'upload-progress' event
UploadProgress(received, total) ==
  /\ progressSeen < MaxEvents
  /\ progressSeen' = progressSeen + 1
  /\ progressPct' = Percent(received, total)
  /\ IF NoWsProperty(Tracked)
       THEN /\ progressRes' = "TypeError"
            /\ UNCHANGED inbox
       ELSE /\ progressRes' = "done"
            /\ inbox' = [c \in Observers |->
                 IF c \in Tracked /\ Open(c)
                   THEN Append(inbox[c], <<"upload-progress", progressPct'>>)
                   ELSE inbox[c]]
  /\ UNCHANGED <<now, fsVars, hlsVars, nextId, ffmpeg, attempts, bcast,
                 wsVars, scanVars, pushVars, localVars, manifestVars,
                 apiVars>>

\* ------------------------------------------------ crash and restart
\* line 597: the flag is a file of tusUploadDir, so it outlives the process
FlagsLost ==
  /\ flagExists' = [s \in Sources |-> FALSE]
  /\ flagContent' = [s \in Sources |-> NaN]
FlagsSurvive == UNCHANGED <<flagExists, flagContent>>

\* the process dies between two steps and is started again: the module is
\* loaded anew (lines 160-165, 494, 695, 735), so every Map, Set and pending
\* callback is gone and the first timer of the scanner is armed; the files
\* stay.  The ffmpeg children die with the process or outlive it; an attempt
\* that was under way has nobody left to end it
Reboot ==
  /\ attempts' = [i \in Ids |->
       IF attempts[i].st \in {"assigned", "claimed", "running"}
         THEN [attempts[i] EXCEPT !.st = "abandoned"] ELSE attempts[i]]
  /\ ffmpeg' \in {ffmpeg, [i \in Ids |-> "idle"]}
  /\ conn' = [c \in Observers |-> "none"]
  /\ clients' = {}
  /\ isAlive' = [c \in Observers |-> FALSE]
  /\ pinged' = {}
  /\ sincePong' = [c \in Observers |-> 0]
  /\ pongs' = [c \in Observers |-> 0]
  /\ scanPc' = "timer"
  /\ processedVideoIds' = {}
  /\ processedFiles' = {}
  /\ uploadFiles' = {}
  /\ scanFile' = NoFile
  /\ scanVideoId' = NoId
  /\ scanStarted' = 0
  /\ timers' = 1
  /\ running' = 0
  /\ quiet' = RunLog(FALSE, FALSE, TRUE, {})
  /\ pushPc' = [s \in Sources |-> "none"]
  /\ pushId' = [s \in Sources |-> NoId]
  /\ pushQ' = [s \in Sources |-> 0]
  /\ pushDim' = [s \in Sources |-> <<0, 0>>]
  /\ processingStartedNotified' = [s \in Sources |-> FALSE]
  /\ processedLocalVideos' = [f \in {} |-> NoId]
  /\ reqPc' = [r \in Requests |-> "none"]
  /\ reqFile' = [r \in Requests |-> NoFile]
  /\ reqId' = [r \in Requests |-> NoId]
  /\ reqRes' = [r \in Requests |-> 0]
  /\ getId' = NoId
  /\ getRes' = [code |-> 0, status |-> "none"]
  /\ progressRes' = "none"
  /\ UNCHANGED <<progressSeen, progressPct>>
  /\ UNCHANGED <<now, srcExists, srcSize, infoSize, hlsVars, nextId, bcast,
                 inbox, wsGlobal, started, localExists, manifestVars>>

Restart == FlagsSurvive /\ Reboot

\* line 597: the process dies inside fs.writeFile(processedFlagPath, ...),
\* after the file was created and before the date was written: the flag of
\* the candidate is left empty, and new Date('') is an Invalid Date
TornWrite ==
  /\ scanPc = "stat"
  /\ srcExists[scanFile]
  /\ Eligible(scanFile)
  /\ flagExists' = [flagExists EXCEPT ![scanFile] = TRUE]
  /\ flagContent' = [flagContent EXCEPT ![scanFile] = NaN]
  /\ Reboot

\* ------------------------------------------------------- specification
Init == InitServer /\ NoManifest

Next ==
  \/ Tick
  \/ \E s \in Arriving : UploadCreate(s)
  \/ \E s \in Arriving : UploadChunk(s)
  \/ Scanner
  \/ \E s \in Sources : PushHandler(s)

Spec == Init /\ [][Next]_vars

\* the server with observers on /ws; the clock stands still
WsLayer(peers) ==
  \/ \E c \in peers : ObsConnect(c)
  \/ \E c \in peers : ObsPong(c)
  \/ \E c \in peers : ObsClose(c)
  \/ Heartbeat

NextWatch ==
  \/ \E s \in Arriving : UploadCreate(s)
  \/ \E s \in Arriving : UploadChunk(s)
  \/ Scanner
  \/ \E s \in Sources : PushHandler(s)
  \/ \E s \in Sources : PushOrphanEnd(s)
  \/ WsLayer(Watching)

SpecWatch == Init /\ [][NextWatch]_vars

\* the scanner, the process requests and an observer that connects and
\* leaves; no push handler, no heartbeat, the clock stands still
NextRetry ==
  \/ \E s \in Arriving : UploadCreate(s)
  \/ \E s \in Arriving : UploadChunk(s)
  \/ Scanner
  \/ \E r \in Requests, name \in LocalFiles \cup {NoName} :
       PostProcess(r, name)
  \/ \E r \in Requests : PostHandler(r)
  \/ \E c \in Watching : ObsConnect(c)
  \/ \E c \in Watching : ObsClose(c)

SpecRetry == Init /\ [][NextRetry]_vars

\* the upload layer never emits 'upload-finish': the scanner is the only
\* path to the transcoder.  The timer of line 691 fires and every awaited
\* promise of a run settles, so the scanner's next step is always taken
SilentChunk(s) == UploadChunk(s) /\ UNCHANGED pushVars

NextFallback ==
  \/ \E s \in Arriving : UploadCreate(s)
  \/ \E s \in Arriving : SilentChunk(s)
  \/ Scanner
  \/ \E c \in Watching : ObsConnect(c)
  \/ \E c \in Watching : ObsClose(c)

SpecFallback == Init /\ [][NextFallback]_vars /\ WF_vars(Scanner)

\* two uploads side by side: one announced by 'upload-finish', the other
\* left to the scanner; the clock stands still
NextPair ==
  \/ \E s \in Sources : UploadCreate(s)
  \/ \E s \in Arriving : UploadChunk(s)
  \/ \E s \in Sources \ Arriving : SilentChunk(s)
  \/ Scanner
  \/ \E s \in Arriving : PushHandler(s)

SpecPair == Init /\ [][NextPair]_vars

\* the scanner over an upload that is never announced, with the clock and
\* with crashes of the process
NextRestart ==
  \/ Tick
  \/ \E s \in Arriving : UploadCreate(s)
  \/ \E s \in Arriving : SilentChunk(s)
  \/ Scanner
  \/ Restart

SpecRestart == Init /\ [][NextRestart]_vars

\* the same, with a crash that leaves a flag without a date
NextTorn ==
  \/ NextRestart
  \/ TornWrite

SpecTorn == Init /\ [][NextTorn]_vars

\* the scanner over an upload that is never announced and a data file
\* without metadata; the clock stands still
NextEligible ==
  \/ \E s \in Arriving : UploadCreate(s)
  \/ \E s \in Arriving : SilentChunk(s)
  \/ \E s \in Sources \ Arriving : StrayFile(s)
  \/ Scanner

SpecEligible == Init /\ [][NextEligible]_vars

\* the WebSocket layer alone, over every observer
NextWs == WsLayer(Observers)

SpecWs == Init /\ [][NextWs]_vars

\* the upload-progress events with one observer
NextProgress ==
  \/ WsLayer(Watching)
  \/ \E total \in 1..MaxBytes : \E received \in 0..total :
       UploadProgress(received, total)

SpecProgress == Init /\ [][NextProgress]_vars

\* the process requests alone, over the files of uploadsDir
NextLocal ==
  \/ \E r \in Requests, name \in LocalFiles \cup {NoName} :
       PostProcess(r, name)
  \/ \E r \in Requests : PostHandler(r)

SpecLocal == Init /\ [][NextLocal]_vars

\* the process requests and the status requests
NextStatus ==
  \/ NextLocal
  \/ \E v \in Ids : GetVideoStatus(v)

SpecStatus == Init /\ [][NextStatus]_vars

\* the push handler, the scanner and the status requests; the clock stands
\* still
NextReady ==
  \/ \E s \in Arriving : UploadCreate(s)
  \/ \E s \in Arriving : UploadChunk(s)
  \/ Scanner
  \/ \E s \in Sources : PushHandler(s)
  \/ \E v \in Ids : GetVideoStatus(v)

SpecReady == Init /\ [][NextReady]_vars

\* every path to the transcoder: the push handler, the scanner and the
\* process requests; the clock stands still
NextPackages ==
  \/ \E s \in Arriving : UploadCreate(s)
  \/ \E s \in Arriving : UploadChunk(s)
  \/ Scanner
  \/ \E s \in Sources : PushHandler(s)
  \/ NextLocal

SpecPackages == Init /\ [][NextPackages]_vars

\* the manifest computation alone, over every probed width and height
InitManifest ==
  /\ InitServer
  /\ probeW \in Dims
  /\ probeH \in Dims
  /\ manifestPc = "probed"
  /\ manifestOut = << >>

NextManifest == BuildMaster

SpecManifest == InitManifest /\ [][NextManifest]_vars


\* ------------------------------------------------- properties of Spec
\* the attempts of source s whose ffmpeg child is running
Encoding(s) == {i \in Ids : attempts[i].src = s /\ ffmpeg[i] = "running"}
\* the attempts on s that are claimed or encoding
InFlight(s) ==
  {i \in Ids : attempts[i].src = s /\ attempts[i].st \in {"claimed", "running"}}
\* an attempt on s is created by this step
StartsAttempt(s) ==
  \E i \in Ids : attempts[i].st = "none" /\ attempts'[i].src = s
\* two attempts of the scanner on one source, i before j
ScanPair(i, j) ==
  /\ i < j
  /\ attempts[i].via = "scan" /\ attempts[j].via = "scan"
  /\ attempts[i].src = attempts[j].src
Abs(x) == IF x < 0 THEN 0 - x ELSE x

\* C1: at any moment at most one transcode of a source is running, whichever
\* path started it (the push handler or the scanner)
C1_OneTranscodePerSource == \A s \in Sources : Cardinality(Encoding(s)) <= 1

\* C2: after a flag was written for a source, the scanner gives the source a
\* new identity (and writes the flag again) only if the earlier attempt
\* released the flag by failing, or the earlier flag is older than 30 minutes
C2_SecondClaimFails ==
  \A i, j \in Ids :
    ScanPair(i, j) => \/ attempts[i].st = "failed"
                      \/ attempts[j].marker - attempts[i].marker > TTL
\* a later run, exactly 30 minutes after the flag was written, has kept the
\* flag and passes over the source in its second phase
C2_Witness ==
  \E s \in Sources :
    /\ scanPc = "readdirFiles" /\ quiet.sinceEnd
    /\ srcExists[s] /\ srcSize[s] = infoSize[s]
    /\ flagExists[s] /\ now - flagContent[s] = TTL
    /\ s \in processedVideoIds
    /\ Cardinality({i \in Ids : attempts[i].src = s
                                 /\ attempts[i].via = "scan"}) = 1

\* C3: once an attempt on a source has succeeded, no step starts another
\* attempt on that source.  Stated for the succeeded attempts of the scanner:
\* whatever follows one of them on its source belongs to a later run
C3_SucceededIsTerminal ==
  [][ \A s \in Sources :
        (\E i \in Ids : /\ attempts[i].src = s
                        /\ attempts[i].via = "scan"
                        /\ attempts[i].st = "succeeded")
        => ~StartsAttempt(s) ]_vars

\* C4: in the second phase of a run no flag of an existing source is left
\* whose date is more than 30 minutes before the start of the run
C4_StaleFlagRemoved ==
  scanPc \in {"readdirFiles", "stat", "mkdir", "ffmpeg"}
  => \A s \in Sources :
       (flagExists[s] /\ srcExists[s] /\ flagContent[s] # NaN)
       => ~(scanStarted - flagContent[s] > TTL)
\* a run removed a stale flag and claimed the source again, under a new
\* identity and with a new flag
C4_Witness ==
  /\ scanPc = "mkdir"
  /\ scanFile \in quiet.sawStale
  /\ flagExists[scanFile] /\ flagContent[scanFile] = attempts[scanVideoId].marker
  /\ \E i \in Ids :
       /\ i < scanVideoId
       /\ attempts[i].src = scanFile /\ attempts[i].via = "scan"
       /\ scanStarted - attempts[i].marker > TTL

\* C5 as stated: after a run has ended, and while only the scanner has written
\* to the upload directory since, a run claims nothing
C5_Idempotent == ~(quiet.sinceEnd /\ scanPc = "mkdir")
\* C5 amended: if the previous run ended without a failed attempt and without
\* an error, and only the scanner has written to the upload directory since
\* that run began, a run claims a source only after removing its flag as
\* older than 30 minutes
C5_IdempotentWhenClean ==
  (quiet.prevClean /\ scanPc = "mkdir") => scanFile \in quiet.sawStale
\* a run goes through its second phase over a claimed, complete source after
\* a clean run, and leaves it alone
C5_Witness ==
  /\ quiet.prevClean /\ quiet.sawStale = {}
  /\ scanPc = "readdirFiles"
  /\ \E s \in Sources :
       /\ srcExists[s] /\ srcSize[s] = infoSize[s]
       /\ s \in processedVideoIds
       /\ \E i \in Ids : attempts[i].src = s /\ attempts[i].st = "succeeded"
                         /\ attempts[i].via = "scan"

\* C8: a ladder attempt has an ffmpeg child or a finished variant only if its
\* master playlist is on disk and lists every quality of the ladder in order
C8_MasterBeforeVariants ==
  \A i \in Ids :
    (attempts[i].via = "push" /\ (ffmpeg[i] # "idle" \/ variantFiles[i] # {}))
    => /\ playlist[i] = "master"
       /\ Len(masterEntries[i]) = Len(qualities)
       /\ \A k \in 1..Len(qualities) :
            masterEntries[i][k].name = qualities[k].name
\* the first variant of a ladder attempt is encoding
C8_Witness ==
  \E s \in Sources :
    /\ pushPc[s] = "ffmpeg" /\ pushQ[s] = 1
    /\ ffmpeg[pushId[s]] = "running"
    /\ playlist[pushId[s]] = "master"

\* -------------------------------------------- properties of SpecLocal
\* C6: of the process requests in flight for one filename at most one has an
\* attempt (an identity and an encode); the others start none
C6_OneEncodePerFilename ==
  \A f \in LocalFiles : Cardinality(InFlight(f)) <= 1

\* the catalog state the attempts of a filename call for
LastAttempt(f) ==
  LET own == {i \in Ids : attempts[i].src = f}
  IN  IF own = {} THEN NoId ELSE CHOOSE i \in own : \A j \in own : j <= i
ExpectedState(f) ==
  IF InFlight(f) # {} THEN "processing"
  ELSE IF LastAttempt(f) = NoId THEN "unprocessed"
  ELSE IF attempts[LastAttempt(f)].st = "succeeded" THEN "processed"
  ELSE "failed"
\* C7: the catalog state of every file of the uploads directory is the one its
\* attempts call for: processing, processed, failed or unprocessed
C7_CatalogTracksAttempt ==
  \A f \in LocalFiles : localExists[f] => CatalogState(f) = ExpectedState(f)

\* ----------------------------------------- properties of SpecManifest
\* the written manifest has one entry per quality, in ladder order, each with
\* the clamped height, and no entry is larger than the source
LadderClamped ==
  /\ Len(manifestOut) = Len(qualities)
  /\ \A k \in 1..Len(qualities) :
       /\ manifestOut[k].name = qualities[k].name
       /\ manifestOut[k].height = Min(qualities[k].height, probeH)
       /\ manifestOut[k].height <= probeH
       /\ manifestOut[k].width <= probeW

\* C9 as stated: three entries in ladder order, height = min(configured
\* height, source height), width = round(height * width / height of the
\* source), a half going up as Math.round does
C9_ExactRound ==
  manifestPc = "written"
  => /\ LadderClamped
     /\ \A k \in 1..Len(qualities) :
          manifestOut[k].width =
            (2 * manifestOut[k].height * probeW + probeH) \div (2 * probeH)
\* C9 amended: three entries in ladder order, height = min(configured height,
\* source height), and the width is an integer nearest to height * width /
\* height of the source (at an exact half, either neighbour)
C9_NearestWidth ==
  manifestPc = "written"
  => /\ LadderClamped
     /\ \A k \in 1..Len(qualities) :
          2 * Abs(manifestOut[k].width * probeH
                  - manifestOut[k].height * probeW) <= probeH
\* the manifest of a 642x480 source: 360 * 642 / 480 = 481.5 is listed as 481
C9_Witness ==
  /\ manifestPc = "written"
  /\ probeW = 642 /\ probeH = 480
  /\ manifestOut[1].height = 360 /\ manifestOut[1].width = 481

\* C10: a 1920x1080 source is listed as 640x360, 853x480 and 1280x720; a
\* 480x270 source still has three entries, each 480x270
C10_Scenarios ==
  manifestPc = "written"
  => /\ (probeW = 1920 /\ probeH = 1080)
        => /\ Len(manifestOut) = 3
           /\ <<manifestOut[1].height, manifestOut[2].height,
                manifestOut[3].height>> = <<360, 480, 720>>
           /\ <<manifestOut[1].width, manifestOut[2].width,
                manifestOut[3].width>> = <<640, 853, 1280>>
     /\ (probeW = 480 /\ probeH = 270)
        => /\ Len(manifestOut) = 3
           /\ \A k \in 1..3 : /\ manifestOut[k].height = 270
                              /\ manifestOut[k].width = 480
\* the manifest of the 480x270 source is written, with its three entries
C10_Witness ==
  /\ manifestPc = "written"
  /\ probeW = 480 /\ probeH = 270
  /\ Len(manifestOut) = 3
  /\ manifestOut[3].name = "720p"

\* ------------------------------------- properties of the ladder attempt
\* C11: the variants whose encode was started are the first n of the ladder,
\* in ladder order, and every one of them but the last has ended and written
\* its playlist: one encode at a time
C11_OneVariantAtATime ==
  \A s \in Sources :
    LET n == Len(started[s])
    IN  /\ n <= Len(qualities)
        /\ \A k \in 1..n : started[s][k] = qualities[k].name
        /\ \A k \in 1..(n - 1) : qualities[k].name \in variantFiles[pushId[s]]
\* the third variant is encoding after the first two have ended
C11_Witness ==
  \E s \in Sources :
    /\ pushPc[s] = "ffmpeg" /\ ffmpeg[pushId[s]] = "running"
    /\ started[s] = <<"360p", "480p", "720p">>
    /\ variantFiles[pushId[s]] = {"360p", "480p"}

\* ------------------------------------------- properties of SpecWatch
\* how often a message type was broadcast, or sent to one peer, for an identity
Count(seq, x) == Cardinality({k \in 1..Len(seq) : seq[k] = x})

\* C12: a ladder attempt whose first variant has been started has broadcast
\* the early 'videoProcessed' notification with its identity exactly once
C12_EarlyNotifiedOnce ==
  \A s \in Sources :
    Len(started[s]) >= 1 => Count(bcast[pushId[s]], "videoProcessed") = 1

\* C13: a step that leaves a ladder attempt failed, and every step after it,
\* starts no further variant of the attempt and changes nothing in its output
\* directory (the master playlist and the playlists of the variants that ended)
C13_FailureKeepsOutput ==
  [][ \A s \in Sources :
        (pushId[s] # NoId /\ attempts'[pushId[s]].st = "failed")
        => /\ started'[s] = started[s]
           /\ (pushId[s] \in outDir) = (pushId[s] \in outDir')
           /\ playlist'[pushId[s]] = playlist[pushId[s]]
           /\ masterEntries'[pushId[s]] = masterEntries[pushId[s]]
           /\ variantFiles'[pushId[s]] = variantFiles[pushId[s]] ]_vars
\* the second variant of an attempt failed: the third was never started, the
\* master playlist and the first variant's playlist are on disk
C13_Witness ==
  \E s \in Sources :
    /\ pushPc[s] = "done" /\ attempts[pushId[s]].st = "failed"
    /\ started[s] = <<"360p", "480p">>
    /\ playlist[pushId[s]] = "master"
    /\ variantFiles[pushId[s]] = {"360p"}

\* the encode of attempt i ends in this step by failing (for the scanner:
\* without a playlist), and the attempt is failed
EncodeFails(i) ==
  /\ attempts[i].st = "running" /\ attempts'[i].st = "failed"
  /\ ffmpeg[i] # "idle" /\ ffmpeg'[i] = "idle"
  /\ playlist'[i] # "media"

\* C14: the step in which an attempt of the push handler or of the scanner
\* fails sends 'videoError' with the attempt's identity to every open observer
\* and closes no connection
C14_ErrorEventOnFailure ==
  [][ \A i \in Ids :
        EncodeFails(i)
        => /\ conn' = conn
           /\ \A c \in Observers :
                Open(c) => inbox'[c] = Append(inbox[c], <<"videoError", i>>)
    ]_vars


\* ------------------------------------------------ properties of SpecRetry
\* the latest attempt of the scanner on s, NoId when there is none
LastScan(s) ==
  LET own == {i \in Ids : attempts[i].src = s /\ attempts[i].via = "scan"}
  IN  IF own = {} THEN NoId ELSE CHOOSE i \in own : \A j \in own : j <= i
ScanFailed(s) == LastScan(s) # NoId /\ attempts[LastScan(s)].st = "failed"
\* this step is the scanner's decision on its candidate
DecidesCandidate ==
  /\ scanPc = "stat"
  /\ <<scanPc, scanFile, uploadFiles>>' # <<scanPc, scanFile, uploadFiles>>
\* a request for f was answered 500 and its answer is still on record
FailedPost(f) ==
  \E r \in Requests : reqPc[r] = "done" /\ reqFile[r] = f /\ reqRes[r] = 500
\* a request for f was answered 200 after an encode of its own
AnsweredPost(f) ==
  \E i \in Ids : /\ attempts[i].src = f /\ attempts[i].via = "local"
                 /\ Count(bcast[i], "localVideoProcessed") > 0
\* this step is the decision of request r on an existing file
DecidesRequest(r) ==
  /\ reqPc[r] = "access" /\ reqPc'[r] # "access"
  /\ localExists[reqFile[r]]
C15_ScanRetries ==
  /\ [](\A s \in Sources : ScanFailed(s) => ~flagExists[s])
  /\ [][ (/\ DecidesCandidate
          /\ srcExists[scanFile]
          /\ infoSize[scanFile] # NoInfo
          /\ srcSize[scanFile] = infoSize[scanFile]
          /\ ScanFailed(scanFile))
         => StartsAttempt(scanFile) ]_vars
C15_PostRetries ==
  [][ \A r \in Requests :
        (DecidesRequest(r) /\ FailedPost(reqFile[r])
           /\ ~AnsweredPost(reqFile[r]))
        => StartsAttempt(reqFile[r]) ]_vars
\* C15: after a failed scanner attempt the flag of its source is gone and the
\* next decision of the scanner on that source, still complete, starts a new
\* attempt; after a process request answered 500, a later request for the
\* same file, not answered 200 in between, starts a new attempt
C15_FailureReturnsEligibility == C15_ScanRetries /\ C15_PostRetries


\* ------------------------------------------------ properties of SpecWatch
\* this step ends the last variant of the ladder attempt on s with success
LadderSucceeds(s) ==
  /\ pushPc[s] = "ffmpeg"
  /\ attempts[pushId[s]].st = "running"
  /\ attempts'[pushId[s]].st = "succeeded"
\* C16: the step that ends the last variant of a ladder attempt with success
\* broadcasts 'videoProcessed' with the attempt's videoId, and every open
\* observer receives it
C16_ReadyAfterLastVariant ==
  [][ \A s \in Sources :
        LadderSucceeds(s)
        => /\ bcast'[pushId[s]] = Append(bcast[pushId[s]], "videoProcessed")
           /\ \A c \in Observers :
                Open(c) => inbox'[c] =
                  Append(inbox[c], <<"videoProcessed", pushId[s]>>)
    ]_vars


\* ------------------------------------------------- properties of Spec
\* attempt i has succeeded and its handler has run to its end
Completed(i) ==
  /\ attempts[i].st = "succeeded"
  /\ \/ attempts[i].via = "scan" /\ scanVideoId # i
     \/ /\ attempts[i].via = "push"
        /\ pushId[attempts[i].src] = i
        /\ pushPc[attempts[i].src] = "done"
C17_GoneAfterSuccess ==
  [](\A i \in Ids : Completed(i) => ~srcExists[attempts[i].src])
C17_KeptOtherwise ==
  [][ \A s \in Sources :
        (srcExists[s] /\ ~srcExists'[s])
        => \E i \in Ids : attempts[i].src = s /\ attempts[i].st = "succeeded"
    ]_vars
\* C17: the source of a succeeded attempt whose handler has ended, of the
\* push handler or of the scanner, no longer exists; and a source is removed
\* only when an attempt on it has succeeded
C17_SourceDeletedOnSuccess == C17_GoneAfterSuccess /\ C17_KeptOtherwise


\* --------------------------------------------------- properties of SpecWs
\* this step is a tick of pingInterval
HeartbeatTick == \E c \in Observers : sincePong'[c] > sincePong[c]
\* c was pinged by an earlier tick and has not answered since
Unanswered(c) == sincePong[c] >= 1
\* C18: a tick of pingInterval terminates and unregisters every registered
\* connection that has not answered the ping of the tick before, and pings
\* all the others, which stay registered; so a registered connection is never
\* more than one tick past its last pong or its connecting
C18_SilentPeerEvicted ==
  /\ [][ HeartbeatTick =>
           /\ \A c \in clients :
                IF Unanswered(c)
                  THEN conn'[c] = "terminated" /\ c \notin clients'
                       /\ c \notin pinged'
                  ELSE conn'[c] = conn[c] /\ c \in clients' /\ c \in pinged'
           /\ pinged' \subseteq clients
       ]_vars
  /\ [](\A c \in clients : sincePong[c] <= 1)
\* a connection that answered no ping is evicted by the second tick while
\* another, just pinged, stays registered
C18_Witness ==
  \E c, d \in Observers :
    /\ conn[c] = "terminated" /\ c \notin clients /\ sincePong[c] = 2
    /\ d \in clients /\ d \in pinged /\ sincePong[d] = 1


\* ------------------------------------------------ properties of SpecWatch
MessageTypes ==
  {"processing-started", "videoProcessed", "videoError", "localVideoProcessed"}
\* this step sends <<t, i>> once to every registered open connection and
\* nothing to anyone else
SentToOpen(t, i) ==
  \A c \in Observers :
    inbox'[c] = IF c \in clients /\ Open(c)
                  THEN Append(inbox[c], <<t, i>>) ELSE inbox[c]
\* this step is the scanner's claim of a source under videoId i
ScanClaims(i) == attempts[i].st = "none" /\ attempts'[i].via = "scan"
\* C19: a step that broadcasts a message sends it once to every connection
\* registered and open in that moment and to no other, a step that
\* broadcasts nothing sends nothing, and the scanner's claim of a source
\* broadcasts 'processing-started'
C19_BroadcastToOpen ==
  [][ /\ \A i \in Ids, t \in MessageTypes :
           bcast'[i] = Append(bcast[i], t) => SentToOpen(t, i)
      /\ bcast' = bcast => inbox' = inbox
      /\ \A i \in Ids :
           ScanClaims(i) => bcast'[i] = Append(bcast[i], "processing-started")
    ]_vars


\* ------------------------------------------------- properties of Spec
\* the attempts of the scanner that are claimed or encoding
ScanInFlight ==
  {i \in Ids : attempts[i].via = "scan"
               /\ attempts[i].st \in {"claimed", "running"}}
\* C20: at most one run of checkForCompletedUploads is in progress, and a run
\* begins only when no run is in progress and no attempt of the scanner is
\* claimed or encoding
C20_RunsNeverOverlap ==
  /\ [](running <= 1)
  /\ [][ running' > running => (running = 0 /\ ScanInFlight = {}) ]_vars
\* a later run is in progress, encoding a source on which an earlier run
\* awaited an encode to its end
C20_Witness ==
  /\ running = 1
  /\ timers = 0
  /\ \E i, j \in Ids :
       /\ ScanPair(i, j)
       /\ attempts[i].st = "failed"
       /\ attempts[j].st = "running"


\* --------------------------------------------- properties of SpecFallback
\* s is complete and unclaimed, and a videoId is left for it
AwaitsScanner(s) ==
  /\ srcExists[s] /\ Eligible(s)
  /\ nextId <= MaxAttempts
\* an attempt of the scanner on s has its ffmpeg started
HandedOver(s) ==
  \E i \in Ids : /\ attempts[i].src = s /\ attempts[i].via = "scan"
                 /\ attempts[i].st = "running"
\* C21: without any 'upload-finish', every complete source that has its .json
\* and no flag is eventually claimed by a run of the scanner and its encode
\* is started
C21_ScannerFallback ==
  \A s \in Sources : AwaitsScanner(s) ~> HandedOver(s)


\* ------------------------------------------------- properties of SpecPair
\* this step ends the run of the scanner that is in progress
RunEnds == scanPc # "timer" /\ scanPc' = "timer"
\* C22: whatever happens to one candidate of a run, the run goes on with the
\* candidates that remain: it ends only when none is left to examine
C22_RunExaminesEveryCandidate ==
  [][ RunEnds => uploadFiles = {} ]_vars


\* ------------------------------------------------ properties of SpecRetry
\* this step answers request r
Answers(r) ==
  /\ reqPc'[r] = "done"
  /\ <<reqPc[r], reqRes[r], reqFile[r]>> # <<reqPc'[r], reqRes'[r], reqFile'[r]>>
\* C23: a process request without a filename is answered 400, one for a
\* missing file 404, one whose processing fails 500, and every answer other
\* than 200 leaves processedLocalVideos as it was and comes with no broadcast
C23_FailureAnswers ==
  [][ \A r \in Requests :
        Answers(r)
        => /\ reqRes'[r] \in {200, 400, 404, 500}
           /\ reqRes'[r] = 400 <=> reqFile'[r] = NoName
           /\ reqRes'[r] = 404 <=>
                (reqFile'[r] # NoName /\ ~localExists[reqFile'[r]])
           /\ reqRes'[r] # 200 =>
                /\ processedLocalVideos' = processedLocalVideos
                /\ bcast' = bcast /\ inbox' = inbox
    ]_vars


\* ----------------------------------------------- properties of SpecStatus
\* this step answers a status request for videoId v
AnswersStatus(v) == getId' = v /\ <<getId, getRes>>' # <<getId, getRes>>
\* no attempt has been given the videoId v
Unassigned(v) == attempts[v].st = "none"
\* C24: a status request for a videoId that no attempt was given is answered
\* 404, and not with a status record
C24_UnknownIdNotFound ==
  [][ \A v \in Ids :
        (AnswersStatus(v) /\ Unassigned(v))
        => (getRes'.code = 404 /\ getRes'.status = "none")
    ]_vars


\* ---------------------------------------------- properties of SpecRestart
\* attempt i of the scanner was cut off by a crash of the process
Abandoned(i) == attempts[i].via = "scan" /\ attempts[i].st = "abandoned"
\* this step is the scanner's claim of source s
ScannerClaims(s) ==
  \E j \in Ids : /\ attempts[j].st = "none"
                 /\ attempts'[j].src = s /\ attempts'[j].via = "scan"
\* this step ends a run of the scanner (a crash ends none)
RunCompletes == scanPc # "timer" /\ scanPc' = "timer" /\ quiet'.sinceEnd
\* C25: after a crash that cut off a scanner attempt, the scanner claims the
\* source again only when the flag of that attempt is older than 30 minutes;
\* and a run that began when the flag was older than that, on a source still
\* complete, has claimed it again by the time it ends
C25_ClaimSurvivesRestart ==
  /\ [][ \A i \in Ids :
           (Abandoned(i) /\ ScannerClaims(attempts[i].src))
           => now - attempts[i].marker > TTL ]_vars
  /\ [][ \A i \in Ids :
           (/\ Abandoned(i) /\ RunCompletes
            /\ scanStarted - attempts[i].marker > TTL
            /\ srcExists[attempts[i].src]
            /\ infoSize[attempts[i].src] # NoInfo
            /\ srcSize[attempts[i].src] = infoSize[attempts[i].src])
           => \E j \in Ids : /\ j > i
                             /\ attempts'[j].src = attempts[i].src
                             /\ attempts'[j].via = "scan" ]_vars
\* after a crash that cut off attempt i, a run has ended without an error
\* and a run has claimed the source again, more than 30 minutes after the
\* flag of i was written
C25_Witness ==
  \E i, j \in Ids :
    /\ i < j /\ Abandoned(i)
    /\ attempts[j].src = attempts[i].src /\ attempts[j].via = "scan"
    /\ attempts[j].st = "claimed"
    /\ attempts[j].marker - attempts[i].marker > TTL
    /\ quiet.prevClean


\* --------------------------------------------- properties of SpecPackages
\* what lies in the output directory of videoId i
Package(i) ==
  [dir |-> i \in outDir, playlist |-> playlist[i],
   master |-> masterEntries[i], variants |-> variantFiles[i]]
EmptyPackage ==
  [dir |-> FALSE, playlist |-> "none", master |-> << >>, variants |-> {}]
\* C26: an attempt is given a videoId under which no file exists yet, and no
\* step changes a file in the output directory of an attempt that has
\* succeeded
C26_PackageImmutable ==
  [][ \A i \in Ids :
        /\ (attempts[i].st = "none" /\ attempts'[i].st # "none")
           => Package(i) = EmptyPackage
        /\ attempts[i].st = "succeeded"
           => (Package(i)' = Package(i) /\ attempts'[i] = attempts[i])
    ]_vars
\* a scanner attempt, a ladder attempt and an attempt of a process request
\* have written their packages side by side, two of them having succeeded
C26_Witness ==
  \E i, j, k \in Ids :
    /\ i < j /\ i < k /\ j # k
    /\ attempts[i].st = "succeeded" /\ playlist[i] # "none"
    /\ attempts[j].st = "succeeded" /\ playlist[j] # "none"
    /\ playlist[k] # "none"
    /\ {"scan", "push", "local"} = {attempts[i].via, attempts[j].via, attempts[k].via}


\* --------------------------------------------- properties of SpecEligible
\* s has its .json and its size is the declared one
Complete(s) == infoSize[s] # NoInfo /\ srcSize[s] = infoSize[s]
\* this step writes the flag of s
WritesFlag(s) ==
  \/ ~flagExists[s] /\ flagExists'[s]
  \/ flagContent'[s] # flagContent[s]
\* C27: the scanner writes a flag and starts an attempt only for a source
\* that has its .json and the declared size; its decision on any other
\* candidate writes no flag, sends nothing and starts no encode
C27_OnlyCompleteClaimed ==
  [][ /\ \A s \in Sources :
           (WritesFlag(s) \/ ScannerClaims(s)) => Complete(s)
      /\ (DecidesCandidate /\ srcExists[scanFile] /\ ~Complete(scanFile))
         => UNCHANGED <<flagExists, flagContent, attempts, nextId, ffmpeg,
                        bcast, inbox, outDir>>
    ]_vars
\* a run, alone in writing since it began, has passed over a data file
\* without .json and has claimed a complete upload
C27_Witness ==
  /\ scanPc = "mkdir" /\ Complete(scanFile) /\ quiet.curClean
  /\ \E s \in Sources \ (uploadFiles \cup {scanFile}) :
       /\ srcExists[s] /\ infoSize[s] = NoInfo /\ ~flagExists[s]
       /\ \A i \in Ids : attempts[i].src # s


\* ------------------------------------------------- properties of Spec
\* C28: once a run has gone through the flags, every flag that had no
\* original when the run began is gone, whatever its date, and the run
\* claims none of their sources
C28_OrphanFlagsPruned ==
  /\ [](scanPc \in {"readdirFiles", "stat", "mkdir", "ffmpeg"}
        => \A s \in quiet.orphans : ~flagExists[s])
  /\ [][ \A s \in Sources : ScannerClaims(s) => s \notin quiet.orphans ]_vars
\* a run has removed a flag without original that was written less than 30
\* minutes before
C28_Witness ==
  /\ scanPc = "readdirFiles"
  /\ \E s \in quiet.orphans :
       /\ ~flagExists[s]
       /\ \E i \in Ids : /\ attempts[i].src = s /\ attempts[i].via = "scan"
                         /\ now - attempts[i].marker <= TTL
                         /\ \A j \in Ids :
                              (attempts[j].src = s /\ attempts[j].via = "scan")
                              => j <= i


\* C29: a run of the scanner that ends, with or without an error, arms one
\* timer for the next run; at any moment either one run is in progress or one
\* timer is armed
C29_ScannerNeverStops ==
  /\ [](timers + running = 1)
  /\ [][ RunEnds => (timers = 0 /\ timers' = 1 /\ running' = 0) ]_vars
\* a run ended on the error of fs.stat for a candidate that had vanished, and
\* the timer of the next run is armed
C29_Witness ==
  /\ scanPc = "timer" /\ timers = 1 /\ running = 0
  /\ quiet.sinceEnd /\ ~quiet.prevClean
  /\ \E s \in Sources : ~srcExists[s] /\ infoSize[s] # NoInfo
  /\ \A i \in Ids : attempts[i].via # "scan"


\* this step starts the encode of scanner attempt i
EncodeStarts(i) ==
  /\ attempts[i].via = "scan"
  /\ attempts[i].st # "running" /\ attempts'[i].st = "running"
\* this step broadcasts 'processing-started' for scanner attempt i
StartAnnounced(i) ==
  /\ attempts'[i].via = "scan"
  /\ bcast'[i] = Append(bcast[i], "processing-started")
\* C30: when the scanner has broadcast 'processing-started' for an attempt the
\* flag of its source is written, and when the encode of the attempt starts
\* the flag exists and holds the time of the claim
C30_ClaimPrecedesWork ==
  [][ \A i \in Ids :
        /\ StartAnnounced(i) =>
             /\ flagExists'[attempts'[i].src]
             /\ flagContent'[attempts'[i].src] = attempts'[i].marker
        /\ EncodeStarts(i) =>
             /\ flagExists[attempts[i].src]
             /\ flagContent[attempts[i].src] = attempts[i].marker
             /\ bcast[i] = <<"processing-started">> ]_vars
\* the encode of a scanner attempt runs, its start was announced and the flag
\* of its source exists
C30_Witness ==
  /\ scanPc = "ffmpeg"
  /\ attempts[scanVideoId].via = "scan"
  /\ attempts[scanVideoId].st = "running"
  /\ ffmpeg[scanVideoId] = "running"
  /\ bcast[scanVideoId] = <<"processing-started">>
  /\ flagExists[scanFile]


\* this step is the scanner's decision on the flag of s (lines 507-537)
ExaminesFlag(s) ==
  /\ scanPc = "accessOriginal" /\ scanFile = s
  /\ scanPc' # "accessOriginal" \/ scanFile' # s
  /\ running' = running
\* the flag of s exists beside its original and holds no date
Unparsable(s) == flagExists[s] /\ srcExists[s] /\ flagContent[s] = NaN
\* C31: a flag whose content is no date is removed by the scan run that
\* examines it, and its source is not put among the processed ones
C31_UnparsableRemoved ==
  [][ \A s \in Sources :
        (ExaminesFlag(s) /\ Unparsable(s)) =>
          (~flagExists'[s] /\ s \notin processedVideoIds') ]_vars


\* the attempts of process requests on file f that have succeeded
SucceededFor(f) ==
  {i \in Ids : /\ attempts[i].src = f /\ attempts[i].via = "local"
               /\ attempts[i].st = "succeeded"}
\* this step is the decision of request r after fs.access (lines 825-837)
DecidesAfterAccess(r) == reqPc[r] = "access" /\ reqPc'[r] # "access"
\* C32: a process request decided after a request for the same, still
\* existing file has succeeded is answered 200 with the identity of that
\* success; it starts no attempt and no encode, leaves processedLocalVideos
\* as it was and broadcasts nothing
C32_IdempotentAfterSuccess ==
  [][ \A r \in Requests :
        ( /\ DecidesAfterAccess(r)
          /\ localExists[reqFile[r]]
          /\ SucceededFor(reqFile[r]) # {} ) =>
            /\ reqRes'[r] = 200
            /\ \A i \in SucceededFor(reqFile[r]) : reqId'[r] = i
            /\ attempts' = attempts /\ ffmpeg' = ffmpeg /\ nextId' = nextId
            /\ processedLocalVideos' = processedLocalVideos
            /\ bcast' = bcast /\ inbox' = inbox ]_vars


\* c has answered the latest ping sent to it, or was not pinged yet
Responsive(c) == sincePong[c] = 0
\* C33: a tick of pingInterval leaves registered and open every connection
\* that has answered its latest ping, so the heartbeat removes or terminates
\* a connection only when a ping to it went unanswered
C33_ResponsivePeerKept ==
  [][ \A c \in Observers :
        /\ (HeartbeatTick /\ c \in clients /\ Responsive(c)) =>
             (c \in clients' /\ conn'[c] = conn[c] /\ c \in pinged')
        /\ (HeartbeatTick /\ conn[c] = "open" /\ conn'[c] = "terminated") =>
             ~Responsive(c) ]_vars
\* a connection that has answered two pings is registered and open after the
\* tick that followed, while a silent one was terminated
C33_Witness ==
  \E c, d \in Observers :
    /\ c \in clients /\ conn[c] = "open"
    /\ pongs[c] = MaxPongs /\ sincePong[c] = 1 /\ c \in pinged
    /\ conn[d] = "terminated"


\* ------------------------------------------- properties of SpecProgress
\* this step handles one 'upload-progress' event
ProgressEvent == progressSeen' = progressSeen + 1
\* C34: the handler of an 'upload-progress' event ends without an error and
\* sends one 'upload-progress' message with the percentage to every open
\* connection, and to no other
C34_ProgressToOpen ==
  [][ ProgressEvent =>
        /\ progressRes' = "done"
        /\ \A c \in Observers :
             inbox'[c] = IF Open(c)
                           THEN Append(inbox[c],
                                       <<"upload-progress", progressPct'>>)
                           ELSE inbox[c] ]_vars


\* observer c was sent 'videoError' for identity i after 'videoProcessed'
ReadyThenFailed(c, i) ==
  \E j, k \in 1..Len(inbox[c]) :
    /\ j < k
    /\ inbox[c][j] = <<"videoProcessed", i>>
    /\ inbox[c][k] = <<"videoError", i>>
\* C35: no observer is sent 'videoError' for an identity for which it was
\* sent 'videoProcessed' before
C35_NeverReadyThenFailed ==
  \A c \in Observers, i \in Ids : ~ReadyThenFailed(c, i)


\* ------------------------------------------------ properties of SpecReady
\* C36: a status request is answered 'processed' only for a videoId whose
\* attempt has succeeded
C36_ProcessedOnlyAfterSuccess ==
  [][ \A v \in Ids :
        (AnswersStatus(v) /\ getRes'.status = "processed")
        => attempts[v].st = "succeeded" ]_vars


\* this step removes the data file of source s
Unlinks(s) == srcExists[s] /\ ~srcExists'[s]
\* C37: the data file of a source is not removed while the ffmpeg child of
\* an attempt on that source is running
C37_NoUnlinkWhileEncoding ==
  [][ \A s \in Sources : Unlinks(s) => Encoding(s) = {} ]_vars


\* a pong of c is handled after the heartbeat evicted c
LatePong(c) ==
  /\ conn[c] = "terminated" /\ conn'[c] = "terminated"
  /\ sincePong[c] # 0 /\ sincePong'[c] = 0
\* the 'close' of c is handled after the heartbeat evicted c
LateClose(c) == conn[c] = "terminated" /\ conn'[c] = "none"
\* C38: clients holds only connections that are open, neither closed nor
\* evicted; a pong or a close handled after the eviction of its connection
\* leaves the set of entries and every entry as they were
C38_RegistryInvariant ==
  /\ [](\A c \in clients : conn[c] = "open")
  /\ [][ \A c \in Observers :
           (LatePong(c) \/ LateClose(c)) =>
             /\ clients' = clients
             /\ \A d \in clients : isAlive'[d] = isAlive[d] ]_vars
\* a pong was handled after the eviction of its connection, which is not
\* registered, while another connection is
C38_Witness ==
  \E c, d \in Observers :
    /\ conn[c] = "terminated" /\ sincePong[c] = 0 /\ c \notin clients
    /\ d \in clients /\ conn[d] = "open"


\* the encode of scanner attempt i has ended and its start had been announced
EncodeOver(i) ==
  /\ attempts[i].via = "scan"
  /\ attempts[i].st \in {"succeeded", "failed"}
  /\ Len(bcast[i]) >= 1 /\ bcast[i][1] = "processing-started"
\* C39: for a scanner attempt whose start was announced and whose encode has
\* ended, exactly one of 'videoProcessed' and 'videoError' was broadcast with
\* its videoId, after 'processing-started'
C39_OneTerminalEvent ==
  \A i \in Ids :
    EncodeOver(i) =>
      \/ bcast[i] = <<"processing-started", "videoProcessed">>
      \/ bcast[i] = <<"processing-started", "videoError">>

====
